---- MODULE Spec2Model ----
(***************************************************************************)
(* Model of ddsp/training/data.py (the DataProvider batching pipeline) and *)
(* ddsp/training/ddsp_run.py (the train / eval / sample dispatcher).       *)
(***************************************************************************)
EXTENDS Integers, Sequences, FiniteSets

VARIABLES
  records,     \* the provider's record set, in stable file/record order
  params,      \* the params dict handed to input_fn: [batch_size |-> B]
  shuffle,     \* get_input_fn / get_batch argument
  repeats,     \* get_input_fn / get_batch argument (-1 = endless)
  it           \* the iterator over the dataset returned by input_fn(params)

dataVars == <<records, params, shuffle, repeats, it>>

VARIABLES
  FLAGS,       \* the absl flags of ddsp_run.py
  files,       \* <model_dir>/operative_config-0.gin: its bindings, or absent
  cfg,         \* gin's global configuration: the bindings in force
  pc,          \* position of run()
  model_dir,   \* run()'s local model_dir
  model,       \* run()'s local model
  trace,       \* what run() has done so far, in order
  calls        \* invocations of the external train / evaluate / sample bodies

runVars == <<FLAGS, files, cfg, pc, model_dir, model, trace, calls>>

vars == <<dataVars, runVars>>

----------------------------------------------------------------------------
(* Bounds of the model.                                                    *)

MaxRecords == 3

MaxBatchSize == 3

MaxRepeats == 2

MaxK == 2

----------------------------------------------------------------------------
(* data.py : the pipeline stages                                           *)

\* buffer_size of dataset.shuffle
ShuffleBuffer == 10000

Range(s) == {s[i] : i \in DOMAIN s}

RECURSIVE Arrangements(_, _)
\* The sequences that list the elements of s at the indexes in left, each
\* once, in any order.
Arrangements(s, left) ==
  IF left = {} THEN {<<>>}
  ELSE UNION {{<<s[i]>> \o rest : rest \in Arrangements(s, left \ {i})} : i \in left}

Permutations(s) == Arrangements(s, DOMAIN s)

\* get_dataset(shuffle): the records in stable order, or with the files
\* listed in a shuffled order.
GetDataset(D, shuf) == IF shuf THEN Permutations(D) ELSE {D}

\* DataProvider.get_preprocess_fn: the default per-record transform.
PreprocessFn(x) == x

\* dataset.map(f): elementwise, order preserving.
MapPreprocess(ds) == [i \in DOMAIN ds |-> PreprocessFn(ds[i])]

RECURSIVE ShuffleFrom(_, _, _)
\* The shuffle buffer at output position i holds the not yet emitted
\* elements among the first i + buffer_size - 1 of the input; one of them is
\* emitted, at random.
ShuffleFrom(ds, left, i) ==
  IF left = {} THEN {<<>>}
  ELSE UNION {{<<ds[j]>> \o rest : rest \in ShuffleFrom(ds, left \ {j}, i + 1)} :
                j \in {k \in left : k <= i + ShuffleBuffer - 1}}

ShuffleOrders_Replace(ds) == [DOMAIN ds -> Range(ds)]

\* dataset.shuffle(buffer_size): every element is emitted once.
ShuffleOrders(ds) == ShuffleFrom(ds, DOMAIN ds, 1)

\* The orders one pass (epoch) over the dataset can have: get_dataset, map,
\* and the shuffle stage when shuffle is set.
PassOrders(D, shuf) ==
  IF shuf
    THEN UNION {ShuffleOrders(MapPreprocess(o)) : o \in GetDataset(D, shuf)}
    ELSE {MapPreprocess(o) : o \in GetDataset(D, shuf)}

MorePasses_NoEndless(pass, count) == pass < count

MorePasses_OffByOne(pass, count) == count < 0 \/ pass <= count

\* dataset.repeat(count): count passes, endless when count is -1.
MorePasses(pass, count) == count < 0 \/ pass < count

CarryOver_Reset(buf) == <<>>

\* repeat comes before batch: the batch under construction is carried over
\* from one pass to the next.
CarryOver(buf) == buf

DropRemainder_Keep == FALSE

\* dataset.batch(batch_size, drop_remainder=True)
DropRemainder == TRUE

MapFn_NoTarget(ex) == <<ex, <<>>>>

\* get_input_fn: map_fn = lambda ex: (ex, ex)
MapFn(ex) == <<ex, ex>>

\* input_fn: batch_size = params['batch_size']
BatchSize == params.batch_size

----------------------------------------------------------------------------
(* The iterator of the dataset built by input_fn(params):                  *)
(*   get_dataset -> map -> [shuffle] -> repeat -> batch -> prefetch -> map *)

NewIterator(D) ==
  [ order    |-> <<>>,                  \* the current pass, as streamed
    pos      |-> 0,                     \* records taken from the current pass
    pass     |-> 0,                     \* passes started
    buf      |-> <<>>,                  \* the batch under construction
    batch    |-> <<>>,                  \* last element yielded by get_batch's dataset
    pair     |-> <<>>,                  \* last element yielded by input_fn's dataset
    nBatches |-> 0,
    nPairs   |-> 0,
    yielded  |-> 0,                     \* records yielded in batches so far
    emitted  |-> [r \in Range(D) |-> 0],\* per record: times yielded in a batch
    dropped  |-> <<>>,                  \* records discarded by batch()
    done     |-> FALSE ]

\* The record sets looked at: 0 to MaxRecords distinct records.
RecordSets == {[i \in 1..n |-> i] : n \in 0..MaxRecords}

\* PassOrders of each record set looked at, with and without shuffle.
OrdersOf == [D \in RecordSets |-> [shuf \in BOOLEAN |-> PassOrders(D, shuf)]]

\* The repeated stream has another record.
HasNext(s) ==
  \/ s.pos < Len(s.order)
  \/ Len(records) > 0 /\ MorePasses(s.pass, repeats)

Yield(s, b) ==
  [s EXCEPT !.batch = b,
            !.pair = MapFn(b),
            !.nBatches = @ + 1,
            !.nPairs = @ + 1,
            !.yielded = @ + Len(b),
            !.emitted = [r \in DOMAIN @ |->
                           @[r] + Cardinality({i \in DOMAIN b : b[i].rec = r})]]

\* One record flows from the repeated stream into the batch stage; a full
\* batch is yielded.  order is the order of the pass that starts, if one does.
NextRecord(s, order) ==
  LET starts == s.pos = Len(s.order)
      ord  == IF starts THEN order ELSE s.order
      pos  == IF starts THEN 1 ELSE s.pos + 1
      pass == IF starts THEN s.pass + 1 ELSE s.pass
      held == IF starts THEN CarryOver(s.buf) ELSE s.buf
      lost == IF starts /\ Len(held) < Len(s.buf) THEN s.buf ELSE <<>>
      buf  == Append(held, [rec |-> ord[pos], pass |-> pass])
      t    == [s EXCEPT !.order = ord, !.pos = pos, !.pass = pass,
                        !.dropped = @ \o lost]
  IN  IF Len(buf) = BatchSize
        THEN Yield([t EXCEPT !.buf = <<>>], buf)
        ELSE [t EXCEPT !.buf = buf]

\* The repeated stream is exhausted: batch() ends, with or without the
\* partial batch.
EndOfStream(s) ==
  IF DropRemainder \/ s.buf = <<>>
    THEN [s EXCEPT !.dropped = @ \o s.buf, !.buf = <<>>, !.done = TRUE]
    ELSE [Yield([s EXCEPT !.buf = <<>>], s.buf) EXCEPT !.done = TRUE]

\* Records taken from the repeated stream so far.
Pulled(s) == s.yielded + Len(s.buf) + Len(s.dropped)

\* The endless stream is followed until MaxK passes' worth of records can
\* have been yielded in batches.
WithinCap(s) == repeats >= 0 \/ Pulled(s) < MaxK * Len(records) + BatchSize

\* No run() is in progress (the data pipeline is looked at on its own).
IdleRun ==
  /\ FLAGS = [mode |-> "train"]
  /\ files = [exists |-> FALSE]
  /\ cfg = <<>>
  /\ pc = "idle"
  /\ model_dir = <<>>
  /\ model = "None"
  /\ trace = <<>>
  /\ calls = <<>>

InitData ==
  /\ records \in RecordSets
  /\ params \in [batch_size : 1..MaxBatchSize]
  /\ shuffle \in BOOLEAN
  /\ repeats \in -1..MaxRepeats
  /\ it = NewIterator(records)
  /\ IdleRun

GetNextRecord ==
  /\ ~it.done
  /\ HasNext(it)
  /\ WithinCap(it)
  /\ IF it.pos = Len(it.order)
       THEN \E order \in OrdersOf[records][shuffle] : it' = NextRecord(it, order)
       ELSE it' = NextRecord(it, it.order)
  /\ UNCHANGED <<records, params, shuffle, repeats, runVars>>

EndOfSequence ==
  /\ ~it.done
  /\ ~HasNext(it)
  /\ it' = EndOfStream(it)
  /\ UNCHANGED <<records, params, shuffle, repeats, runVars>>

NextData == GetNextRecord \/ EndOfSequence

SpecData == InitData /\ [][NextData]_vars

----------------------------------------------------------------------------
(* ddsp_run.py : flags, configuration layers, run()                        *)

\* flags.DEFINE_integer('num_train_steps', 1000000, ...)
NumTrainStepsDefault == 1000000

\* The gin keys the run depends on.  "data_provider" stands for the
\* data_provider binding of whichever routine the mode selects.
Keys == {"learning_rate", "ddsp.core.cumsum.use_tpu", "get_model.model", "data_provider"}

\* A layer binds some of the keys; the value it gives names the layer.
LayersFrom(name, keys) == {[k \in S |-> name] : S \in SUBSET keys}

NoBindings == [k \in {} |-> "None"]

\* os.path.expanduser on a path given as its components.
HomeDir == <<"home", "user">>

ExpandUser_Identity(path) == path

ExpandUser(path) ==
  IF path # <<>> /\ Head(path) = "~" THEN HomeDir \o Tail(path) ELSE path

\* '{}'.format(FLAGS.use_tpu)
Format(b) == IF b THEN "True" ELSE "False"

Override_KeepFirst(c, layer) ==
  [k \in DOMAIN c \cup DOMAIN layer |-> IF k \in DOMAIN c THEN c[k] ELSE layer[k]]

\* Parsing a layer into gin's configuration: later calls override earlier ones.
Override(c, layer) ==
  [k \in DOMAIN c \cup DOMAIN layer |-> IF k \in DOMAIN layer THEN layer[k] ELSE c[k]]

\* opt_default = 'base_tpu.gin' if FLAGS.use_tpu else 'base.gin'
OptDefault(use_tpu) ==
  IF use_tpu THEN "optimization/base_tpu.gin" ELSE "optimization/base.gin"

\* The optimization defaults bind the optimizer's settings.
DefaultsLayer(use_tpu) == [k \in {"learning_rate"} |-> OptDefault(use_tpu)]

\* gin.parse_config('ddsp.core.cumsum.use_tpu={}'.format(FLAGS.use_tpu))
CumsumLayer(use_tpu) == [k \in {"ddsp.core.cumsum.use_tpu"} |-> Format(use_tpu)]

\* An optional integer flag: None, or a value.
None == <<>>

Some(v) == <<v>>

Truthy_NotNone(delay_time) == delay_time # None

\* delay_start: if delay_time:
Truthy(delay_time) == delay_time # None /\ delay_time[1] # 0

DataProviderArg_None == "None"

\* data_provider=gin.REQUIRED in the calls of train, evaluate and sample
DataProviderArg == "gin.REQUIRED"

ModelDirArg_Raw(local, flag) == flag

\* model_dir=model_dir in the calls: the local, expanded above
ModelDirArg(local, flag) == local

\* The keys run() itself asks the configuration for.
RequiredKeys == {"get_model.model", "data_provider"}

\* The flags, and the persisted configuration under model_dir, with the
\* user's and the persisted layers binding any of keys.
Inputs(modes, masters, steps, onces, delays, keys) ==
  /\ FLAGS \in [ mode : modes,
                 model_dir : {<<"~", "tmp", "ddsp">>, <<"data", "ddsp">>},
                 master : masters,
                 use_tpu : BOOLEAN,
                 gin_file : LayersFrom("gin_file", keys),
                 gin_param : LayersFrom("gin_param", keys),
                 num_train_steps : steps,
                 eval_once : onces,
                 initial_delay_secs : delays ]
  /\ files \in {[exists |-> FALSE, bindings |-> NoBindings]}
               \cup [exists : {TRUE},
                     bindings : LayersFrom("operative_config-0.gin", keys)]

\* run() has not started; no data pipeline is looked at.
AtStart ==
  /\ cfg = NoBindings
  /\ pc = "start"
  /\ model_dir = <<>>
  /\ model = "None"
  /\ trace = <<>>
  /\ calls = <<>>
  /\ records = <<>> /\ params = [batch_size |-> 1] /\ shuffle = FALSE
  /\ repeats = 0 /\ it = NewIterator(<<>>)

\* Every mode and flag value; the layers bind any of the keys run() asks for.
InitRun ==
  /\ Inputs({"train", "eval", "sample"}, {"", "local"}, {NumTrainStepsDefault, 1},
            BOOLEAN, {None, Some(0), Some(1)}, RequiredKeys)
  /\ AtStart

\* The flags parse_gin does not read at their defaults; the layers bind any
\* of the keys.
InitGin ==
  /\ Inputs({"train"}, {""}, {NumTrainStepsDefault}, {FALSE}, {None}, Keys)
  /\ AtStart

\* model_dir = os.path.expanduser(FLAGS.model_dir)
Expand ==
  /\ pc = "start"
  /\ model_dir' = ExpandUser(FLAGS.model_dir)
  /\ trace' = Append(trace, "expanduser")
  /\ pc' = "parse_gin"
  /\ UNCHANGED <<FLAGS, files, cfg, model, calls, dataVars>>

\* parse_gin(model_dir): the layers in the order of the calls.
ParseGinLayers(dir) ==
  <<[read |-> "read_defaults", layer |-> DefaultsLayer(FLAGS.use_tpu)]>>
  \o <<[read |-> "exists_operative", layer |-> NoBindings]>>
  \o (IF files.exists
        THEN <<[read |-> "read_operative", layer |-> files.bindings]>> ELSE <<>>)
  \o <<[read |-> "parse_cumsum", layer |-> CumsumLayer(FLAGS.use_tpu)]>>
  \o <<[read |-> "read_gin_file", layer |-> FLAGS.gin_file]>>
  \o <<[read |-> "parse_gin_param", layer |-> FLAGS.gin_param]>>

RECURSIVE ApplyLayers(_, _)
ApplyLayers(c, layers) ==
  IF layers = <<>> THEN c
  ELSE ApplyLayers(Override(c, Head(layers).layer), Tail(layers))

ParseGin ==
  /\ pc = "parse_gin"
  /\ LET layers == ParseGinLayers(model_dir)
     IN  /\ cfg' = ApplyLayers(cfg, layers)
         /\ trace' = trace \o [i \in DOMAIN layers |-> layers[i].read]
  /\ pc' = "get_model"
  /\ UNCHANGED <<FLAGS, files, model_dir, model, calls, dataVars>>

Bound(key) == key \in DOMAIN cfg

\* model = models.get_model(): the model bound in the configuration, or the
\* error of a required value that is not bound.
GetModel ==
  /\ pc = "get_model"
  /\ IF Bound("get_model.model")
       THEN /\ model' = cfg["get_model.model"]
            /\ trace' = Append(trace, "get_model")
            /\ pc' = "dispatch"
       ELSE /\ model' = model
            /\ trace' = trace \o <<"get_model", "error">>
            /\ pc' = "failed"
  /\ UNCHANGED <<FLAGS, files, cfg, model_dir, calls, dataVars>>

\* A call of a gin-configurable routine: an argument given as gin.REQUIRED is
\* taken from the configuration, and the call fails before the routine's
\* body runs when it is not bound there.
CallRoutine(fn, args) ==
  IF args.data_provider = "gin.REQUIRED" /\ ~Bound("data_provider")
    THEN /\ calls' = calls
         /\ trace' = Append(trace, "error")
         /\ pc' = "failed"
    ELSE /\ calls' = Append(calls,
              [args EXCEPT !.data_provider =
                 IF @ = "gin.REQUIRED" THEN cfg["data_provider"] ELSE @])
         /\ trace' = Append(trace, fn)
         /\ pc' = "done"

Train ==
  /\ pc = "dispatch"
  /\ FLAGS.mode = "train"
  /\ CallRoutine("train",
       [ fn |-> "train",
         data_provider |-> DataProviderArg,
         model |-> model,
         model_dir |-> ModelDirArg(model_dir, FLAGS.model_dir),
         num_steps |-> FLAGS.num_train_steps,
         master |-> FLAGS.master,
         use_tpu |-> FLAGS.use_tpu ])
  /\ UNCHANGED <<FLAGS, files, cfg, model_dir, model, dataVars>>

\* delay_start()
DelayStart ==
  /\ pc = "dispatch"
  /\ FLAGS.mode \in {"eval", "sample"}
  /\ trace' = IF Truthy(FLAGS.initial_delay_secs)
                THEN Append(trace, "sleep") ELSE trace
  /\ pc' = "delayed"
  /\ UNCHANGED <<FLAGS, files, cfg, model_dir, model, calls, dataVars>>

Evaluate ==
  /\ pc = "delayed"
  /\ FLAGS.mode = "eval"
  /\ CallRoutine("evaluate",
       [ fn |-> "evaluate",
         data_provider |-> DataProviderArg,
         model |-> model,
         model_dir |-> ModelDirArg(model_dir, FLAGS.model_dir),
         master |-> FLAGS.master,
         run_once |-> FLAGS.eval_once ])
  /\ UNCHANGED <<FLAGS, files, cfg, model_dir, model, dataVars>>

Sample ==
  /\ pc = "delayed"
  /\ FLAGS.mode = "sample"
  /\ CallRoutine("sample",
       [ fn |-> "sample",
         data_provider |-> DataProviderArg,
         model |-> model,
         model_dir |-> ModelDirArg(model_dir, FLAGS.model_dir),
         master |-> FLAGS.master,
         run_once |-> FLAGS.eval_once ])
  /\ UNCHANGED <<FLAGS, files, cfg, model_dir, model, dataVars>>

NextRun == Expand \/ ParseGin \/ GetModel \/ Train \/ DelayStart \/ Evaluate \/ Sample

SpecRun == InitRun /\ [][NextRun]_vars

\* parse_gin on its own, as run() calls it.
NextGin == Expand \/ ParseGin

SpecGin == InitGin /\ [][NextGin]_vars

\* Fairness: the consumer of the dataset keeps asking for the next element.
FairData == SpecData /\ WF_vars(NextData)

----------------------------------------------------------------------------
(* Properties of the batching pipeline                                     *)

NumRecords == Len(records)

CountIn(seq, r) == Cardinality({i \in DOMAIN seq : seq[i].rec = r})

Passes(seq) == {seq[i].pass : i \in DOMAIN seq}

RECURSIVE Drain(_)
\* The same pipeline run to exhaustion with shuffle=False (finite repeats).
Drain(s) ==
  IF s.done THEN s
  ELSE IF HasNext(s)
    THEN Drain(NextRecord(s, CHOOSE o \in OrdersOf[records][FALSE] : TRUE))
    ELSE EndOfStream(s)

Unshuffled == Drain(NewIterator(records))

Exhausted == it.done /\ repeats >= 0

\* C1: every batch yielded by get_batch, and both components of every pair
\* yielded by the input_fn dataset, hold exactly batch_size records; a
\* group of fewer records is never yielded, it is discarded at exhaustion.
C1_BatchesAreFull ==
  /\ it.nBatches > 0 => Len(it.batch) = BatchSize
  /\ it.nPairs > 0 => Len(it.pair[1]) = BatchSize /\ Len(it.pair[2]) = BatchSize
  /\ Len(it.buf) < BatchSize
  /\ it.yielded = it.nBatches * BatchSize

C1_Witness ==
  /\ it.done /\ shuffle /\ repeats = 2
  /\ it.nBatches > 0
  /\ Len(it.dropped) > 0

\* C2 as stated: after exhaustion with repeats = N >= 0, every record of D
\* has appeared in the yielded batches exactly N times.
C2_EveryRecordNTimes ==
  Exhausted => \A r \in Range(records) : it.emitted[r] = repeats

\* C2 amended: exactly N passes are streamed, every record is taken from the
\* stream exactly N times, and it appears in the yielded batches N times
\* less its occurrences among the final (N*|D|) mod B records of the stream,
\* which are discarded; so exactly N times when B divides N*|D|.
C2_NPassesLessRemainder ==
  Exhausted =>
    /\ NumRecords > 0 => it.pass = repeats /\ it.pos = Len(it.order)
    /\ Len(it.dropped) = (repeats * NumRecords) % BatchSize
    /\ \A r \in Range(records) :
         /\ it.emitted[r] + CountIn(it.dropped, r) = repeats
         /\ it.emitted[r] <= repeats
    /\ (repeats * NumRecords) % BatchSize = 0 =>
         \A r \in Range(records) : it.emitted[r] = repeats

C2_Witness ==
  /\ Exhausted /\ repeats = 2 /\ NumRecords >= 2
  /\ \E r \in Range(records) : it.emitted[r] < repeats
  /\ \E r \in Range(records) : it.emitted[r] = repeats

Endless == repeats = -1 /\ NumRecords > 0

YieldedMaxKPasses == it.yielded >= MaxK * NumRecords

NotExhausted == ~it.done

YieldedNeverDecreases == it'.nBatches >= it.nBatches

\* C3: with repeats = -1 over a non-empty record set the sequence never
\* reaches exhaustion, and for every K up to MaxK at least K*|D| records are
\* eventually yielded in batches (the number yielded never decreases, so
\* reaching MaxK*|D| passes every smaller K on the way).
C3_EndlessNeverExhausts ==
  /\ [](Endless => NotExhausted)
  /\ [][YieldedNeverDecreases]_vars
  /\ Endless => <>YieldedMaxKPasses

C3_Witness ==
  /\ Endless /\ ~it.done
  /\ it.yielded >= MaxK * NumRecords
  /\ it.pass > MaxK

\* C4 as stated: the multiset of records yielded with shuffle=True equals
\* the multiset yielded with shuffle=False (same dataset, batch_size, repeats).
C4_SameMultisetAsUnshuffled ==
  Exhausted /\ shuffle => it.emitted = Unshuffled.emitted

\* C4 amended: with shuffle=True every pass streamed into batching is a
\* permutation of the record set, and as many batches are yielded and as
\* many records discarded as with shuffle=False; the yielded multisets are
\* equal when batch_size divides repeats*|D| (nothing is discarded), and
\* otherwise may differ in which records the discarded remainder holds.
C4_ShufflePermutesPasses ==
  /\ shuffle /\ it.pass > 0 =>
       /\ Len(it.order) = NumRecords
       /\ \A r \in Range(records) :
            Cardinality({i \in DOMAIN it.order : it.order[i] = r}) = 1
  /\ Exhausted /\ shuffle =>
       /\ it.nBatches = Unshuffled.nBatches
       /\ Len(it.dropped) = Len(Unshuffled.dropped)
       /\ \A r \in Range(records) :
            it.emitted[r] + CountIn(it.dropped, r)
              = Unshuffled.emitted[r] + CountIn(Unshuffled.dropped, r)
       /\ Unshuffled.dropped = <<>> => it.emitted = Unshuffled.emitted

C4_Witness ==
  /\ Exhausted /\ shuffle /\ repeats = 2
  /\ it.order # records
  /\ it.nBatches > 0
  /\ it.emitted = Unshuffled.emitted

\* C8: every element yielded by the input_fn dataset is a pair of the same
\* batch twice, and its first component is the element get_batch's dataset
\* yielded at the same position (one pair per batch, in order).
C8_SelfPaired ==
  /\ it.nPairs = it.nBatches
  /\ it.nPairs > 0 =>
       /\ it.pair[1] = it.pair[2]
       /\ it.pair[1] = it.batch
       /\ Len(it.pair) = 2

C8_Witness ==
  /\ it.nPairs >= 2 /\ shuffle
  /\ it.pair = <<it.batch, it.batch>>
  /\ Len(it.batch) = BatchSize

\* C10 as stated: floor(N*|D| / B) batches are yielded and the only records
\* discarded are the final (N*|D|) mod B records of the last pass.
C10_RemainderOfLastPass ==
  Exhausted =>
    /\ it.nBatches = (repeats * NumRecords) \div BatchSize
    /\ Len(it.dropped) = (repeats * NumRecords) % BatchSize
    /\ \A i \in DOMAIN it.dropped : it.dropped[i].pass = repeats

\* C10 amended: floor(N*|D| / B) batches are yielded, nothing is discarded
\* at a boundary between passes, and the only records discarded are the
\* final (N*|D|) mod B records of the repeated stream; they all belong to
\* the last pass when that remainder is at most |D|, and reach back into
\* earlier passes when it is larger (B > |D|).
C10_RemainderOfStream ==
  /\ ~it.done => it.dropped = <<>>
  /\ Exhausted =>
       LET total == repeats * NumRecords
           m == total % BatchSize
       IN  /\ it.nBatches = total \div BatchSize
           /\ Len(it.dropped) = m
           /\ \A i \in DOMAIN it.dropped :
                it.dropped[i].pass = ((total - m + i - 1) \div NumRecords) + 1
           /\ m <= NumRecords =>
                \A i \in DOMAIN it.dropped : it.dropped[i].pass = repeats

C10_Witness ==
  /\ Exhausted /\ repeats = 2
  /\ Cardinality(Passes(it.batch)) = 2
  /\ it.dropped # <<>>
  /\ Passes(it.dropped) = {repeats}

----------------------------------------------------------------------------
(* Properties of the dispatcher                                            *)

Events == Range(trace)

\* Position of the first occurrence of an event in the trace (0: none).
IndexOf(e) ==
  IF e \in Events THEN CHOOSE i \in DOMAIN trace :
                         trace[i] = e /\ \A j \in 1..(i - 1) : trace[j] # e
  ELSE 0

Occurrences(e) == Cardinality({i \in DOMAIN trace : trace[i] = e})

ConfigEvents ==
  {"read_defaults", "exists_operative", "read_operative", "parse_cumsum",
   "read_gin_file", "parse_gin_param"}

Routines == {"train", "evaluate", "sample"}

\* What os.path.expanduser makes of the --model_dir flag.
ExpandedFlagDir ==
  IF Head(FLAGS.model_dir) = "~"
    THEN <<"home", "user">> \o Tail(FLAGS.model_dir)
    ELSE FLAGS.model_dir

DelaySetAndNonZero ==
  FLAGS.initial_delay_secs # <<>> /\ FLAGS.initial_delay_secs[1] # 0

Finished == pc \in {"done", "failed"}

\* C5: in mode train with the model and the data provider bound, train is
\* invoked exactly once, with the configured data provider, the model
\* get_model returned, the expanded model directory, num_train_steps, master
\* and use_tpu as given; evaluate and sample are never invoked and there is
\* no start delay.
C5_TrainInvokedOnce ==
  FLAGS.mode = "train" =>
    /\ Events \cap {"sleep", "evaluate", "sample"} = {}
    /\ pc # "done" => calls = <<>>
    /\ Finished /\ Bound("get_model.model") /\ Bound("data_provider") => pc = "done"
    /\ pc = "done" =>
         /\ calls = << [ fn |-> "train",
                         data_provider |-> cfg["data_provider"],
                         model |-> cfg["get_model.model"],
                         model_dir |-> ExpandedFlagDir,
                         num_steps |-> FLAGS.num_train_steps,
                         master |-> FLAGS.master,
                         use_tpu |-> FLAGS.use_tpu ] >>
         /\ model = cfg["get_model.model"]
         /\ Occurrences("train") = 1

C5_Witness ==
  /\ pc = "done" /\ FLAGS.mode = "train"
  /\ Head(FLAGS.model_dir) = "~" /\ FLAGS.use_tpu /\ FLAGS.master = "local"
  /\ FLAGS.num_train_steps = 1
  /\ FLAGS.initial_delay_secs = Some(1)
  /\ Len(calls) = 1

\* The value the layers give key k, the last layer binding it deciding, in
\* the order defaults, persisted configuration (if the file exists), fixed
\* cumsum override, --gin_file, --gin_param.
LastLayerValue(k) ==
  IF k \in DOMAIN FLAGS.gin_param THEN "gin_param"
  ELSE IF k \in DOMAIN FLAGS.gin_file THEN "gin_file"
  ELSE IF k = "ddsp.core.cumsum.use_tpu"
    THEN (IF FLAGS.use_tpu THEN "True" ELSE "False")
  ELSE IF files.exists /\ k \in DOMAIN files.bindings THEN "operative_config-0.gin"
  ELSE IF k = "learning_rate"
    THEN (IF FLAGS.use_tpu THEN "optimization/base_tpu.gin"
                           ELSE "optimization/base.gin")
  ELSE "unbound"

\* C6: after parse_gin every key has the value of the last layer that binds
\* it, in the order defaults (base_tpu.gin if use_tpu else base.gin),
\* operative_config-0.gin if it exists, the cumsum.use_tpu override,
\* --gin_file, --gin_param; the layers are read in that order.
C6_LastLayerWins ==
  pc = "get_model" =>
    /\ \A k \in Keys :
         IF LastLayerValue(k) = "unbound"
           THEN ~Bound(k)
           ELSE Bound(k) /\ cfg[k] = LastLayerValue(k)
    /\ trace = <<"expanduser", "read_defaults", "exists_operative">>
               \o (IF files.exists THEN <<"read_operative">> ELSE <<>>)
               \o <<"parse_cumsum", "read_gin_file", "parse_gin_param">>

C6_Witness ==
  /\ pc = "get_model" /\ files.exists /\ FLAGS.use_tpu
  /\ DOMAIN files.bindings = Keys
  /\ DOMAIN FLAGS.gin_file = {"ddsp.core.cumsum.use_tpu", "get_model.model"}
  /\ DOMAIN FLAGS.gin_param = {"get_model.model"}
  /\ cfg = [k \in Keys |->
              CASE k = "learning_rate" -> "operative_config-0.gin"
                [] k = "data_provider" -> "operative_config-0.gin"
                [] k = "ddsp.core.cumsum.use_tpu" -> "gin_file"
                [] k = "get_model.model" -> "gin_param"]

RequiredUnbound == ~Bound("get_model.model") \/ ~Bound("data_provider")

IOEvents ==
  {"read_defaults", "exists_operative", "read_operative", "read_gin_file",
   "sleep", "train", "evaluate", "sample"}

\* C7 as stated: when a required value is never bound the run fails with
\* the error before any I/O: no file-existence check, no config-file read,
\* no start-delay sleep and no external work precedes the error.
C7_FailsBeforeAnyIO ==
  Finished /\ RequiredUnbound =>
    /\ pc = "failed"
    /\ \A i \in 1..(IndexOf("error") - 1) : trace[i] \notin IOEvents

\* C7 amended: when a required value is never bound the run fails with the
\* error before any external train / evaluate / sample work, in every mode.
\* The configuration files are read and the persisted configuration is
\* looked for before the error (that is how the binding is found missing);
\* when only the data provider is unbound in mode eval or sample, the start
\* delay, if set and non-zero, is slept before the error too.
C7_FailsBeforeRoutineBody ==
  /\ Finished /\ RequiredUnbound => pc = "failed"
  /\ pc = "failed" =>
       /\ RequiredUnbound
       /\ calls = <<>>
       /\ Events \cap Routines = {}
       /\ trace[Len(trace)] = "error" /\ Occurrences("error") = 1
       /\ {"read_defaults", "exists_operative", "read_gin_file"} \subseteq Events
       /\ ~Bound("get_model.model") => "sleep" \notin Events
       /\ Bound("get_model.model") =>
            ("sleep" \in Events <=>
               FLAGS.mode \in {"eval", "sample"} /\ DelaySetAndNonZero)

C7_Witness ==
  /\ pc = "failed" /\ FLAGS.mode = "eval"
  /\ Bound("get_model.model") /\ ~Bound("data_provider")
  /\ trace[Len(trace) - 1] = "sleep"

RoutineOf(mode) == IF mode = "eval" THEN "evaluate" ELSE "sample"

\* C9: in mode eval or sample the start delay is slept only when
\* initial_delay_secs is set and non-zero, after path expansion,
\* configuration parsing and model resolution and before the routine; the
\* mode's routine is invoked exactly once with run_once = eval_once, and the
\* other routine and train are never invoked.
C9_DelayThenRoutineOnce ==
  FLAGS.mode \in {"eval", "sample"} =>
    /\ Events \cap Routines \subseteq {RoutineOf(FLAGS.mode)}
    /\ pc # "done" => calls = <<>>
    /\ Finished /\ Bound("get_model.model") /\ Bound("data_provider") => pc = "done"
    /\ pc \in {"delayed", "done"} =>
         /\ Occurrences("sleep") = (IF DelaySetAndNonZero THEN 1 ELSE 0)
         /\ "sleep" \in Events =>
              /\ IndexOf("expanduser") < IndexOf("sleep")
              /\ \A e \in ConfigEvents : IndexOf(e) < IndexOf("sleep")
              /\ {"read_defaults", "parse_cumsum", "read_gin_file", "parse_gin_param"}
                   \subseteq Events
              /\ IndexOf("get_model") > 0 /\ IndexOf("get_model") < IndexOf("sleep")
    /\ pc = "done" =>
         /\ calls = << [ fn |-> RoutineOf(FLAGS.mode),
                         data_provider |-> cfg["data_provider"],
                         model |-> cfg["get_model.model"],
                         model_dir |-> ExpandedFlagDir,
                         master |-> FLAGS.master,
                         run_once |-> FLAGS.eval_once ] >>
         /\ Occurrences(RoutineOf(FLAGS.mode)) = 1
         /\ trace[Len(trace)] = RoutineOf(FLAGS.mode)
         /\ "sleep" \in Events => IndexOf("sleep") = Len(trace) - 1

C9_Witness ==
  /\ pc = "done" /\ FLAGS.mode = "sample" /\ FLAGS.eval_once
  /\ trace[Len(trace) - 1] = "sleep"
  /\ Len(calls) = 1 /\ calls[1].fn = "sample" /\ calls[1].run_once

====
